---- MODULE Spec2Model ----
(***************************************************************************)
(* Model of the mean-reversion gap trading engine (engine.py,              *)
(* risk_management.py, config.py).                                         *)
(*                                                                         *)
(* Units.  Python floats are modelled by exact integers:                   *)
(*   prices, ATR, point, tick size : hundredths of a price unit            *)
(*   lots, volume step             : hundredths of a lot                   *)
(*   equity, profit, risk budget   : dollars                               *)
(*   bar values                    : seconds (the time field of a rate)    *)
(* A quotient is compared by cross-multiplication, never rounded.          *)
(***************************************************************************)
EXTENDS Integers, Sequences, FiniteSets, TLC

(***************************************************************************)
(* config.py                                                               *)
(***************************************************************************)
SYMBOLS ==
    << "XAUUSD", "BTCUSD", "US30", "USDJPY", "GBPJPY", "EURGBP",
       "ETHUSD", "USOIL", "AUDJPY", "XAGUSD", "EURUSD", "GBPUSD" >>

TIMEFRAMES == << 5, 15, 30 >>

RISK_PER_TRADE == 50

RISK_REWARD_RATIO == 5

ORDER_EXPIRATION_BARS == 5

\* 0.01 lot, in hundredths of a lot
MIN_LOT_SIZE == 1

\* 1.0 lot, in hundredths of a lot
MAX_LOT_SIZE == 100

\* 1.0 lot, in hundredths of a lot
MAX_ALLOWED_LOT_SIZE == 100

ENABLE_BUY == TRUE

ENABLE_SELL == TRUE

MAX_TRADES_PER_SYMBOL_TF == 1

MAX_GLOBAL_TRADES == 15

MIN_BARS_BETWEEN_TRADES == 5

\* LIMIT_ORDER_DISTANCE = 2.0 pips
LIMIT_ORDER_DISTANCE == 2

ENABLE_SESSION == TRUE

SUNDAY_OPEN_HOUR == 22

SUNDAY_OPEN_MIN == 15

DAILY_CLOSE_HOUR == 21

DAILY_CLOSE_MIN == 45

\* DAILY_LOSS_PERCENT = 5.0
DAILY_LOSS_PERCENT == 5

\* MAX_DRAWDOWN_PERCENT = 10.0
MAX_DRAWDOWN_PERCENT == 10

\* MAX_SPREAD_MULTIPLIER = 3.0
MAX_SPREAD_MULTIPLIER == 3

BASE_MAGIC == 10000

\* SYMBOL_SETTINGS[symbol]['slFactor'], doubled (1.5 -> 3, 2.0 -> 4)
slFactorX2(symbol) ==
    IF symbol \in {"XAUUSD", "XAGUSD"} THEN 4 ELSE 3

\* SYMBOL_SETTINGS[symbol]['minMaGap'], times ten (0.6 -> 6, 0.8 -> 8)
minMaGapX10(symbol) ==
    IF symbol = "US30" THEN 8 ELSE 6

\* SYMBOL_SETTINGS[symbol]['trailingFactor'] (1.0 or 2.0)
trailingFactor(symbol) ==
    IF symbol = "USOIL" THEN 2 ELSE 1

rsiUpper(symbol) ==
    IF symbol \in {"BTCUSD", "ETHUSD"} THEN 75 ELSE 70

rsiLower(symbol) ==
    IF symbol \in {"BTCUSD", "ETHUSD"} THEN 25 ELSE 30

\* SYMBOL_SETTINGS[symbol].get('pointMultiplier', 1.0): 1.0 for every symbol
pointMultiplier(symbol) == 1

(***************************************************************************)
(* Python helpers                                                          *)
(***************************************************************************)
Abs(x) == IF x < 0 THEN -x ELSE x

Max2(a, b) == IF a >= b THEN a ELSE b

Min2(a, b) == IF a <= b THEN a ELSE b

\* list.index(x): zero-based position of x in seq
IndexOf(seq, x) == (CHOOSE i \in 1..Len(seq) : seq[i] = x) - 1

\* int(a / b) for b > 0: truncation toward zero
TruncDiv(a, b) == IF a >= 0 THEN a \div b ELSE -((-a) \div b)

\* round(n / d) for n >= 0, d > 0: Python 3 rounds halves to the even integer
RoundHalfEven(n, d) ==
    LET q == n \div d
        r == n % d
    IN  IF 2 * r < d THEN q
        ELSE IF 2 * r > d THEN q + 1
        ELSE IF q % 2 = 0 THEN q ELSE q + 1

\* a loop that comes by every pair a second time
PairList_twice ==
    LET once == [ i \in 1..(Len(SYMBOLS) * Len(TIMEFRAMES)) |->
                    << SYMBOLS[((i - 1) \div Len(TIMEFRAMES)) + 1],
                       TIMEFRAMES[((i - 1) % Len(TIMEFRAMES)) + 1] >> ]
    IN  once \o once

\* the pairs in the order of the two nested loops of on_timer
PairList ==
    [ i \in 1..(Len(SYMBOLS) * Len(TIMEFRAMES)) |->
        << SYMBOLS[((i - 1) \div Len(TIMEFRAMES)) + 1],
           TIMEFRAMES[((i - 1) % Len(TIMEFRAMES)) + 1] >> ]

Pairs == { PairList[i] : i \in 1..Len(PairList) }

(***************************************************************************)
(* Magic numbers                                                           *)
(***************************************************************************)
\* a mis-scaled symbol stride: two symbols can share one magic
MagicOfOrder_collide(symbol, timeframe) ==
    BASE_MAGIC + IndexOf(SYMBOLS, symbol) * 10 + IndexOf(TIMEFRAMES, timeframe) * 10

\* process_symbol_timeframe: the magic attached to a new order
MagicOfOrder(symbol, timeframe) ==
    BASE_MAGIC + IndexOf(SYMBOLS, symbol) * 1000 + IndexOf(TIMEFRAMES, timeframe) * 10

\* manage_existing_positions: the magic a position must carry to be trailed
MagicOfTrailer(symbol, timeframe) ==
    BASE_MAGIC + IndexOf(SYMBOLS, symbol) * 1000 + IndexOf(TIMEFRAMES, timeframe) * 10

(***************************************************************************)
(* risk_management.py                                                      *)
(*                                                                         *)
(* A symbol_info is a record                                               *)
(*   [available, point, bid, ask, spread, trade_contract_size,             *)
(*    trade_tick_value, trade_tick_size, volume_step];                     *)
(* available = FALSE stands for None.                                      *)
(***************************************************************************)
\* RiskManager.calculate_dollar_risk_per_point: dollars per point
calculate_dollar_risk_per_point(symbol, info) ==
    IF ~info.available THEN 0
    ELSE IF symbol \in {"BTCUSD", "ETHUSD"} THEN 1 * pointMultiplier(symbol)
    ELSE IF info.trade_tick_size = 0 \/ info.point = 0 THEN 0
    ELSE ((info.trade_tick_value * info.point) \div info.trade_tick_size)
            * pointMultiplier(symbol)

\* risk_per_lot of calculate_lot_size, in hundredths of a dollar:
\* abs(entry - sl) * dollar_per_point * contract_size
risk_per_lot(symbol, info, entry, sl) ==
    Abs(entry - sl) * calculate_dollar_risk_per_point(symbol, info)
        * (IF info.available THEN info.trade_contract_size ELSE 1)

\* RiskManager.calculate_lot_size: hundredths of a lot
calculate_lot_size(symbol, info, entry, sl, risk_amount) ==
    IF entry = 0 \/ sl = 0 \/ entry = sl THEN 0
    ELSE IF calculate_dollar_risk_per_point(symbol, info) = 0 THEN 0
    ELSE LET rpl     == risk_per_lot(symbol, info, entry, sl)
             \* lots = risk_amount / risk_per_lot, as the fraction n / rpl
             \* of a hundredth of a lot
             n       == risk_amount * 100 * 100
             min_lot == MIN_LOT_SIZE
             max_lot == Min2(MAX_LOT_SIZE, MAX_ALLOWED_LOT_SIZE)
             \* the clamped lots as a fraction num / den
             num     == IF n < min_lot * rpl THEN min_lot
                        ELSE IF n > max_lot * rpl THEN max_lot
                        ELSE n
             den     == IF n < min_lot * rpl \/ n > max_lot * rpl THEN 1 ELSE rpl
             step    == IF info.available THEN info.volume_step ELSE 1
         IN  IF rpl <= 0 THEN 0
             ELSE IF step > 0 THEN step * RoundHalfEven(num, den * step)
             ELSE RoundHalfEven(num, den)

\* the stop distance of adjust_risk_for_fixed_dollar, in hundredths of a price
\* unit: required_risk_points * point, with
\* required_risk_points = RISK_PER_TRADE / (dollar_per_point * contract_size * lot)
adjusted_distance(symbol, info, lot) ==
    LET dpp      == calculate_dollar_risk_per_point(symbol, info)
        contract == IF info.available THEN info.trade_contract_size ELSE 1
    IN  (RISK_PER_TRADE * 100 * info.point) \div (dpp * contract * lot)

\* RiskManager.adjust_risk_for_fixed_dollar: the pair << sl, tp >>
adjust_risk_for_fixed_dollar(symbol, info, sl, tp, entry, lot, is_buy) ==
    LET dpp      == calculate_dollar_risk_per_point(symbol, info)
        contract == IF info.available THEN info.trade_contract_size ELSE 1
    IN  IF dpp = 0 THEN << sl, tp >>
        ELSE IF dpp * contract * lot <= 0 THEN << sl, tp >>
        ELSE LET d == adjusted_distance(symbol, info, lot)
             IN  IF is_buy
                 THEN << entry - d, entry + ((entry - (entry - d)) * RISK_REWARD_RATIO) >>
                 ELSE << entry + d, entry - (((entry + d) - entry) * RISK_REWARD_RATIO) >>

(***************************************************************************)
(* Breakers and session gate of the engine                                 *)
(***************************************************************************)
\* a breaker that only trips strictly above the threshold
DrawdownBreach_strict(equity_high_now, current_equity) ==
    IF equity_high_now = 0 THEN FALSE
    ELSE IF equity_high_now > 0
         THEN (equity_high_now - current_equity) * 100
                  > MAX_DRAWDOWN_PERCENT * equity_high_now
         ELSE (equity_high_now - current_equity) * 100
                  < MAX_DRAWDOWN_PERCENT * equity_high_now

\* calculate_drawdown(current_equity) >= MAX_DRAWDOWN_PERCENT, where
\* calculate_drawdown is 0 for equity_high = 0 and otherwise
\* (equity_high - current_equity) / equity_high * 100
DrawdownBreach(equity_high_now, current_equity) ==
    IF equity_high_now = 0 THEN 0 >= MAX_DRAWDOWN_PERCENT
    ELSE IF equity_high_now > 0
         THEN (equity_high_now - current_equity) * 100
                  >= MAX_DRAWDOWN_PERCENT * equity_high_now
         ELSE (equity_high_now - current_equity) * 100
                  <= MAX_DRAWDOWN_PERCENT * equity_high_now

\* a breaker that compares against the percentage as if it were dollars
DailyLossBreach_dollars(daily_pl, equity_start) ==
    daily_pl <= -DAILY_LOSS_PERCENT

\* daily_profit_loss <= -daily_loss_limit, with
\* daily_loss_limit = equity_at_start * (DAILY_LOSS_PERCENT / 100)
DailyLossBreach(daily_pl, equity_start) ==
    daily_pl * 100 <= -(equity_start * DAILY_LOSS_PERCENT)

\* a gate whose Friday close compares the minute with > instead of >=
is_trading_session_late(weekday, hour, minute) ==
    IF ~ENABLE_SESSION THEN TRUE
    ELSE IF weekday = 6
    THEN ~(hour < SUNDAY_OPEN_HOUR
             \/ (hour = SUNDAY_OPEN_HOUR /\ minute < SUNDAY_OPEN_MIN))
    ELSE IF weekday = 4
    THEN ~(hour > DAILY_CLOSE_HOUR
             \/ (hour = DAILY_CLOSE_HOUR /\ minute > DAILY_CLOSE_MIN))
    ELSE IF weekday = 5 THEN FALSE
    ELSE TRUE

\* is_trading_session, on the Africa/Lagos weekday (0 = Monday .. 6 = Sunday),
\* hour and minute
is_trading_session(weekday, hour, minute) ==
    IF ~ENABLE_SESSION THEN TRUE
    ELSE IF weekday = 6
    THEN ~(hour < SUNDAY_OPEN_HOUR
             \/ (hour = SUNDAY_OPEN_HOUR /\ minute < SUNDAY_OPEN_MIN))
    ELSE IF weekday = 4
    THEN ~(hour > DAILY_CLOSE_HOUR
             \/ (hour = DAILY_CLOSE_HOUR /\ minute >= DAILY_CLOSE_MIN))
    ELSE IF weekday = 5 THEN FALSE
    ELSE TRUE

\* a day check that forgets the date it last reset on
is_new_trading_day_again(last_day, date, weekday) ==
    weekday \in {6, 0, 1, 2, 3, 4}

\* is_new_trading_day: the date differs from last_trading_day and the weekday
\* is Sunday..Friday
is_new_trading_day(last_day, date, weekday) ==
    last_day # date /\ weekday \in {6, 0, 1, 2, 3, 4}

(***************************************************************************)
(* The gateway (MetaTrader 5 terminal) as the engine sees it               *)
(***************************************************************************)
\* the largest ticket the gateway hands out; it rejects every order after it
MaxTicket == 2

\* Africa/Lagos instants at which the clock is observed; date 1 is a Thursday
Instants ==
    << [date |-> 1, hour |-> 23, minute |-> 55],
       [date |-> 2, hour |-> 21, minute |-> 40],
       [date |-> 2, hour |-> 21, minute |-> 44],
       [date |-> 2, hour |-> 21, minute |-> 45],
       [date |-> 3, hour |-> 12, minute |-> 0],
       [date |-> 4, hour |-> 22, minute |-> 14],
       [date |-> 4, hour |-> 22, minute |-> 15],
       [date |-> 5, hour |-> 0,  minute |-> 0],
       [date |-> 5, hour |-> 0,  minute |-> 5] >>

\* datetime.weekday() of a date: 0 = Monday .. 6 = Sunday
WeekdayOf(date) == (date + 2) % 7

\* the time field of the newest bar of a timeframe: its opening time in seconds
BarTime(idx, timeframe) ==
    LET t == Instants[idx]
        m == t.date * 1440 + t.hour * 60 + t.minute
    IN  (m \div timeframe) * timeframe * 60

\* the two pairs for which the gateway has market data
GoldM5 == << "XAUUSD", 5 >>

BitcoinM15 == << "BTCUSD", 15 >>

ActivePairs == { GoldM5, BitcoinM15 }

\* symbol_info("XAUUSD") at a bid
GoldInfo(bid) ==
    [ available |-> TRUE, point |-> 1, bid |-> bid, ask |-> bid + 10, spread |-> 10,
      trade_contract_size |-> 100, trade_tick_value |-> 1,
      trade_tick_size |-> 1, volume_step |-> 1 ]

\* symbol_info("BTCUSD") at a bid
BitcoinInfo(bid) ==
    [ available |-> TRUE, point |-> 1, bid |-> bid, ask |-> bid + 100, spread |-> 100,
      trade_contract_size |-> 1, trade_tick_value |-> 1,
      trade_tick_size |-> 1, volume_step |-> 1 ]

\* an indicator snapshot: the latest values, rsi_prev = rsi[-2]
Snapshot(ma_fast, ma_slow, atr_fast, atr_slow, rsi_prev, rsi, close) ==
    [ available |-> TRUE, ma_fast |-> ma_fast, ma_slow |-> ma_slow, atr_fast |-> atr_fast,
      atr_slow |-> atr_slow, rsi_prev |-> rsi_prev, rsi |-> rsi, close |-> close ]

\* what the gateway answers for one pair during one tick: whether
\* copy_rates_from_pos yields a bar, the indicator snapshot, symbol_info and the
\* average of the 50 spread samples of get_avg_spread
NoInfo ==
    [ available |-> FALSE, point |-> 0, bid |-> 0, ask |-> 0, spread |-> 0,
      trade_contract_size |-> 0, trade_tick_value |-> 0, trade_tick_size |-> 0,
      volume_step |-> 0 ]

NoSnapshot ==
    [ available |-> FALSE, ma_fast |-> 0, ma_slow |-> 0, atr_fast |-> 0,
      atr_slow |-> 0, rsi_prev |-> 0, rsi |-> 0, close |-> 0 ]

NoData == [ bars |-> FALSE, ind |-> NoSnapshot, info |-> NoInfo, avg_spread |-> 0 ]

Quiet(info) ==
    [ bars |-> TRUE, info |-> info, avg_spread |-> info.spread * info.point,
      ind |-> Snapshot(info.bid, info.bid, 300, 400, 50, 50, info.bid) ]

BuySetup(info, atr) ==
    [ bars |-> TRUE, info |-> info, avg_spread |-> info.spread * info.point,
      ind |-> Snapshot(info.bid + (info.bid \div 50), info.bid - 1000,
                       atr, atr + 100, 50, 45, info.bid) ]

SellSetup(info, atr) ==
    [ bars |-> TRUE, info |-> info, avg_spread |-> info.spread * info.point,
      ind |-> Snapshot(info.bid - (info.bid \div 50), info.bid + 1000,
                       atr, atr + 100, 45, 50, info.bid) ]

\* a buy setup that misses one of the five conditions by the least amount:
\* 1 the ATR gate, 2 the gap below the fast average, 3 the slow average,
\* 4 the falling RSI, 5 the RSI ceiling (at a price of 2000.00)
BuyNearMiss(info, which) ==
    [ bars |-> TRUE, info |-> info, avg_spread |-> info.spread * info.point,
      ind |-> CASE which = 1 -> Snapshot(204000, 199000, 300, 300, 50, 45, 200000)
                [] which = 2 -> Snapshot(200000, 198000, 300, 400, 50, 45, 198800)
                [] which = 3 -> Snapshot(204000, 200000, 300, 400, 50, 45, 200000)
                [] which = 4 -> Snapshot(204000, 199000, 300, 400, 45, 45, 200000)
                [] which = 5 -> Snapshot(204000, 199000, 300, 400, 80, 70, 200000) ]

\* the same for a sell setup, 5 being the RSI floor
SellNearMiss(info, which) ==
    [ bars |-> TRUE, info |-> info, avg_spread |-> info.spread * info.point,
      ind |-> CASE which = 1 -> Snapshot(196000, 201000, 300, 300, 45, 50, 200000)
                [] which = 2 -> Snapshot(200000, 202000, 300, 400, 45, 50, 201200)
                [] which = 3 -> Snapshot(196000, 200000, 300, 400, 45, 50, 200000)
                [] which = 4 -> Snapshot(196000, 201000, 300, 400, 50, 50, 200000)
                [] which = 5 -> Snapshot(196000, 201000, 300, 400, 20, 30, 200000) ]

\* the history request of a pair fails; symbol_info still answers
IndicatorsLost(m) == [ m EXCEPT !.ind.available = FALSE ]

\* a market: the answers for the two active pairs; every other pair has no data
Market(gold, bitcoin) ==
    [ p \in ActivePairs |-> IF p = GoldM5 THEN gold ELSE bitcoin ]

At(mkt, pair) == IF pair \in DOMAIN mkt THEN mkt[pair] ELSE NoData

\* the first spread sample far above the average of the later ones
WideSpread(m) == [ m EXCEPT !.avg_spread = 1 ]

GoldMid == 2000 * 100

GoldUp == 2015 * 100

GoldDown == 1985 * 100

BitcoinMid == 9000 * 100

BitcoinUp == 9005 * 100

BitcoinDown == 8995 * 100

\* the markets of a tick
GoldBuy == Market(BuySetup(GoldInfo(GoldMid), 300), NoData)
GoldBuyWideStop == Market(BuySetup(GoldInfo(GoldMid), 6000), NoData)
GoldSell == Market(SellSetup(GoldInfo(GoldMid), 300), NoData)
BitcoinBuy == Market(NoData, BuySetup(BitcoinInfo(BitcoinMid), 2000))
BitcoinSell == Market(NoData, SellSetup(BitcoinInfo(BitcoinMid), 200000))
BothBuy ==
    Market(BuySetup(GoldInfo(GoldMid), 300), BuySetup(BitcoinInfo(BitcoinMid), 2000))
GoldBuyWideSpread == Market(WideSpread(BuySetup(GoldInfo(GoldMid), 300)), NoData)
QuietMid == Market(Quiet(GoldInfo(GoldMid)), Quiet(BitcoinInfo(BitcoinMid)))
QuietUp == Market(Quiet(GoldInfo(GoldUp)), Quiet(BitcoinInfo(BitcoinUp)))
QuietDown == Market(Quiet(GoldInfo(GoldDown)), Quiet(BitcoinInfo(BitcoinDown)))
NoFeed == Market(NoData, NoData)
\* gold has risen and symbol_info("XAUUSD") returns None
GoldUpNoInfo == Market([ Quiet(GoldInfo(GoldUp)) EXCEPT !.info = NoInfo ], NoData)
\* gold has risen and the broker reports trade_tick_value 0
GoldUpNoTickValue ==
    Market(Quiet([ GoldInfo(GoldUp) EXCEPT !.trade_tick_value = 0 ]), NoData)
GoldLostBitcoinBuy ==
    Market(IndicatorsLost(BuySetup(GoldInfo(GoldMid), 300)),
           BuySetup(BitcoinInfo(BitcoinMid), 2000))
NearMisses ==
    { Market(BuyNearMiss(GoldInfo(GoldMid), which), NoData) : which \in 1..5 }
      \cup { Market(SellNearMiss(GoldInfo(GoldMid), which), NoData) : which \in 1..5 }

\* account equities the gateway reports
EquityValues == { 0, 8900, 9000, 9400, 10000 }

\* floating profits the gateway reports for a position
ProfitValues == { -60, 60, 110 }

(***************************************************************************)
(* State                                                                   *)
(***************************************************************************)
VARIABLES
    \* TradingEngine fields
    equity_high,
    equity_at_start,
    daily_profit_loss,
    last_trading_day,
    active_orders,       \* sequence of PendingOrder
    last_trade_bar,      \* symbol_contexts[symbol]['last_trade_bar'][timeframe]
    atr_current,         \* symbol_contexts[symbol]['atr_current'][timeframe]
    cached_data,
    alive,               \* FALSE once an exception has left on_timer and run
    \* the gateway
    clock,               \* index into Instants
    gw_orders,           \* pending orders, a set of records
    gw_positions,        \* open positions, a set of records
    next_ticket,
    \* what the last run of on_timer did
    tick,
    \* the control loop of run and the signal handler
    loop

vars ==
    << equity_high, equity_at_start, daily_profit_loss, last_trading_day,
       active_orders, last_trade_bar, atr_current, cached_data, alive,
       clock, gw_orders, gw_positions, next_ticket, tick, loop >>

\* class PendingOrder (placement_time is written and never read)
PendingOrder(ticket, symbol, timeframe, placement_bar, magic) ==
    [ ticket |-> ticket, symbol |-> symbol, timeframe |-> timeframe,
      placement_bar |-> placement_bar, magic |-> magic ]

\* a set of records with distinct tickets as the tuple the gateway returns,
\* in ticket order
RECURSIVE ByTicket(_)
ByTicket(set) ==
    IF set = {} THEN << >>
    ELSE LET first == CHOOSE r \in set : \A q \in set : r.ticket <= q.ticket
         IN  << first >> \o ByTicket(set \ { first })

\* what positions_get / orders_get returned: a tuple, or None (ok = FALSE)
Fetched(list) == [ ok |-> TRUE, list |-> list ]

FetchedNone == [ ok |-> FALSE, list |-> << >> ]

IsNone(x) == ~x.ok

SeqToSet(seq) == { seq[i] : i \in 1..Len(seq) }

RemoveAt(seq, i) == SubSeq(seq, 1, i - 1) \o SubSeq(seq, i + 1, Len(seq))

\* list.remove(x): drops the first element equal to x
ListRemove(seq, x) ==
    IF \E i \in 1..Len(seq) : seq[i] = x
    THEN RemoveAt(seq, CHOOSE i \in 1..Len(seq) :
                          seq[i] = x /\ \A j \in 1..(i - 1) : seq[j] # x)
    ELSE seq

(***************************************************************************)
(* on_timer and what it calls.                                             *)
(*                                                                         *)
(* st is the state a tick works on:                                        *)
(*   [active_orders, last_trade_bar, atr_current, gw_orders, gw_positions, *)
(*    next_ticket, placed, modified, cancels, raised]                      *)
(* where placed, modified and cancels list the order_send requests of the  *)
(* tick and raised says that an exception is propagating.                  *)
(* io is what the gateway answers during the tick:                         *)
(*   [positions, orders : the cached tuples (Fetched) or FetchedNone,      *)
(*    mkt : the market, now : the clock,                                   *)
(*    accept : the pairs whose new order it accepts,                       *)
(*    modify_ok : whether it accepts a stop modification,                  *)
(*    cancel : "ok", "gone" or "fail", its answer to a cancel request]     *)
(***************************************************************************)
\* a loop body that does not look the ticket up in the snapshot
cleanup_one_blind(st, order, io) ==
    IF ~At(io.mkt, << order.symbol, order.timeframe >>).bars
    THEN st
    ELSE IF BarTime(io.now, order.timeframe) - order.placement_bar
                >= ORDER_EXPIRATION_BARS
    THEN [ st EXCEPT
             !.cancels = Append(@, [ ticket |-> order.ticket, result |-> io.cancel ]),
             !.gw_orders = IF io.cancel = "fail" THEN @
                           ELSE { o \in @ : o.ticket # order.ticket },
             !.active_orders = ListRemove(@, order) ]
    ELSE st

\* cleanup_orders, the body of its loop for one tracked order
cleanup_one(st, order, io) ==
    IF ~(\E o \in SeqToSet(io.orders.list) : o.ticket = order.ticket)
    THEN [ st EXCEPT !.active_orders = ListRemove(@, order) ]
    ELSE IF ~At(io.mkt, << order.symbol, order.timeframe >>).bars
    THEN st
    ELSE IF BarTime(io.now, order.timeframe) - order.placement_bar
                >= ORDER_EXPIRATION_BARS
    THEN [ st EXCEPT
             !.cancels = Append(@, [ ticket |-> order.ticket, result |-> io.cancel ]),
             !.gw_orders = IF io.cancel = "fail" THEN @
                           ELSE { o \in @ : o.ticket # order.ticket },
             !.active_orders = ListRemove(@, order) ]
    ELSE st

\* cleanup_orders: the loop over the copy `tracked` of active_orders, from its
\* i-th element; iterating None (orders_get failed) raises TypeError
RECURSIVE cleanup_from(_, _, _, _)
cleanup_from(st, tracked, i, io) ==
    IF i > Len(tracked) THEN st
    ELSE IF IsNone(io.orders) THEN [ st EXCEPT !.raised = TRUE ]
    ELSE cleanup_from(cleanup_one(st, tracked[i], io), tracked, i + 1, io)

cleanup_orders(st, io) == cleanup_from(st, st.active_orders, 1, io)

\* get_bars_count
get_bars_count(symbol, timeframe, io) ==
    IF At(io.mkt, << symbol, timeframe >>).bars THEN BarTime(io.now, timeframe) ELSE 0

\* a count that leaves the open positions out
count_orders_pending(symbol, magic, io) ==
    IF IsNone(io.orders) THEN 0
    ELSE Cardinality({ i \in 1..Len(io.orders.list) :
             io.orders.list[i].symbol = symbol /\ io.orders.list[i].magic = magic })

\* count_orders
count_orders(symbol, magic, io) ==
    (IF IsNone(io.positions) THEN 0
     ELSE Cardinality({ i \in 1..Len(io.positions.list) :
              io.positions.list[i].symbol = symbol
                  /\ io.positions.list[i].magic = magic }))
    + (IF IsNone(io.orders) THEN 0
       ELSE Cardinality({ i \in 1..Len(io.orders.list) :
                io.orders.list[i].symbol = symbol
                    /\ io.orders.list[i].magic = magic }))

\* Indicators.get_spread
get_spread(info) == IF info.available THEN info.spread * info.point ELSE 0

\* a count of profit units that rounds a started unit up
profit_units_eager(position) ==
    TruncDiv(position.profit + RISK_PER_TRADE - 1, RISK_PER_TRADE)

\* int(profit / RISK_PER_TRADE)
profit_units(position) == TruncDiv(position.profit, RISK_PER_TRADE)

\* (RISK_PER_TRADE / point_value) * point with point_value = volume * dollar_per_point
stair_step(position, symbol, info) ==
    (RISK_PER_TRADE * 100 * info.point)
        \div (position.volume * calculate_dollar_risk_per_point(symbol, info))

\* manage_existing_positions: current_price of a position
current_price(position, info) ==
    IF position.type = "BUY" THEN info.ask ELSE info.bid

\* manage_existing_positions: new_sl of a position with profit_units >= 1
trail_stop(position, symbol, info, atr_value) ==
    IF position.type = "BUY"
    THEN LET stair == position.price_open
                        + profit_units(position) * stair_step(position, symbol, info)
         IN  IF symbol \in {"XAUUSD", "USOIL", "XAGUSD"} /\ atr_value > 0
             THEN Max2(stair, current_price(position, info)
                                - trailingFactor(symbol) * atr_value)
             ELSE stair
    ELSE LET stair == position.price_open
                        - profit_units(position) * stair_step(position, symbol, info)
         IN  IF symbol \in {"XAUUSD", "USOIL", "XAGUSD"} /\ atr_value > 0
             THEN Min2(stair, current_price(position, info)
                                + trailingFactor(symbol) * atr_value)
             ELSE stair

\* manage_existing_positions: new_tp for a new_sl
trail_take_profit(position, new_sl) ==
    IF position.type = "BUY"
    THEN position.price_open + ((position.price_open - new_sl) * RISK_REWARD_RATIO)
    ELSE position.price_open - ((new_sl - position.price_open) * RISK_REWARD_RATIO)

\* a trailer that accepts a stop equal to the current one or at the market
trail_allowed_lax(position, new_sl, price) ==
    IF position.type = "BUY"
    THEN new_sl >= position.sl /\ new_sl <= price
    ELSE (position.sl = 0 \/ new_sl <= position.sl) /\ new_sl >= price

\* manage_existing_positions: the test that guards modify_position;
\* (current_sl or 0) for a long, (current_sl or float('inf')) for a short
trail_allowed(position, new_sl, price) ==
    IF position.type = "BUY"
    THEN new_sl > position.sl /\ new_sl < price
    ELSE (position.sl = 0 \/ new_sl < position.sl) /\ new_sl > price

\* modify_position: the request and what the gateway does with it
modify_position(st, position, new_sl, new_tp, price, io) ==
    [ st EXCEPT
        !.modified = Append(@, [ ticket |-> position.ticket, type |-> position.type,
                                 sl |-> new_sl, tp |-> new_tp,
                                 current_sl |-> position.sl, current_price |-> price,
                                 price_open |-> position.price_open,
                                 profit |-> position.profit,
                                 accepted |-> io.modify_ok ]),
        !.gw_positions =
            IF io.modify_ok
            THEN { IF q.ticket = position.ticket
                   THEN [ q EXCEPT !.sl = new_sl, !.tp = new_tp ] ELSE q : q \in @ }
            ELSE @ ]

\* manage_existing_positions, the body of its loop for one cached position
manage_one(st, position, symbol, timeframe, io) ==
    LET info == At(io.mkt, << symbol, timeframe >>).info
    IN  IF position.symbol # symbol THEN st
        ELSE IF position.magic # MagicOfTrailer(symbol, timeframe) THEN st
        ELSE IF ~info.available THEN st
        ELSE IF calculate_dollar_risk_per_point(symbol, info) <= 0 THEN st
        ELSE IF position.volume * calculate_dollar_risk_per_point(symbol, info) <= 0
        THEN st
        ELSE IF profit_units(position) < 1 THEN st
        ELSE LET new_sl == trail_stop(position, symbol, info,
                                      st.atr_current[<< symbol, timeframe >>])
                 new_tp == trail_take_profit(position, new_sl)
                 price  == current_price(position, info)
             IN  IF trail_allowed(position, new_sl, price)
                 THEN modify_position(st, position, new_sl, new_tp, price, io)
                 ELSE st

RECURSIVE manage_from(_, _, _, _, _)
manage_from(st, i, symbol, timeframe, io) ==
    IF i > Len(io.positions.list) THEN st
    ELSE manage_from(manage_one(st, io.positions.list[i], symbol, timeframe, io),
                     i + 1, symbol, timeframe, io)

\* manage_existing_positions
manage_existing_positions(st, symbol, timeframe, io) ==
    IF IsNone(io.positions) \/ io.positions.list = << >> THEN st
    ELSE manage_from(st, 1, symbol, timeframe, io)

\* a buy condition without the slow average
buy_condition_loose(symbol, ind) ==
    /\ ENABLE_BUY
    /\ ind.atr_fast < ind.atr_slow
    /\ ind.close * 1000 < ind.ma_fast * 1000 - ind.ma_fast * minMaGapX10(symbol)
    /\ ind.rsi_prev > ind.rsi
    /\ ind.rsi < rsiUpper(symbol)

\* process_symbol_timeframe: buy_condition
buy_condition(symbol, ind) ==
    /\ ENABLE_BUY
    /\ ind.atr_fast < ind.atr_slow
    \* close < ma_fast - gap with gap = ma_fast * min_ma_gap / 100
    /\ ind.close * 1000 < ind.ma_fast * 1000 - ind.ma_fast * minMaGapX10(symbol)
    /\ ind.close > ind.ma_slow
    /\ ind.rsi_prev > ind.rsi
    /\ ind.rsi < rsiUpper(symbol)

\* process_symbol_timeframe: sell_condition
sell_condition(symbol, ind) ==
    /\ ENABLE_SELL
    /\ ind.atr_fast < ind.atr_slow
    /\ ind.close * 1000 > ind.ma_fast * 1000 + ind.ma_fast * minMaGapX10(symbol)
    /\ ind.close < ind.ma_slow
    /\ ind.rsi_prev < ind.rsi
    /\ ind.rsi > rsiLower(symbol)

\* process_symbol_timeframe: the limit price, stop, take-profit and lots of a
\* new order, from the sizer and, at the lot cap, the fixed-risk adjustment
order_plan(symbol, info, atr_value, is_buy) ==
    LET pip_size     == info.point * 10
        price        == IF is_buy THEN info.ask - LIMIT_ORDER_DISTANCE * pip_size
                        ELSE info.bid + LIMIT_ORDER_DISTANCE * pip_size
        \* sl_factor * atr_value
        distance     == (slFactorX2(symbol) * atr_value) \div 2
        sl0          == IF is_buy THEN price - distance ELSE price + distance
        tp0          == IF is_buy THEN price + (distance * RISK_REWARD_RATIO)
                        ELSE price - (distance * RISK_REWARD_RATIO)
        initial_lots == calculate_lot_size(symbol, info, price, sl0, RISK_PER_TRADE)
        capped       == initial_lots >= MAX_ALLOWED_LOT_SIZE
        adjusted     == adjust_risk_for_fixed_dollar(symbol, info, sl0, tp0, price,
                                                     MAX_ALLOWED_LOT_SIZE, is_buy)
    IN  [ price |-> price, initial_sl |-> sl0, initial_lots |-> initial_lots,
          capped |-> capped,
          lots |-> IF capped THEN MAX_ALLOWED_LOT_SIZE ELSE initial_lots,
          sl |-> IF capped THEN adjusted[1] ELSE sl0,
          tp |-> IF capped THEN adjusted[2] ELSE tp0 ]

\* a caller that tracks whatever place_order returned
order_ticket_given_any(order_ticket) == TRUE

\* process_symbol_timeframe: "if order_ticket:"; place_order returns None
\* when the gateway did not accept the request
order_ticket_given(order_ticket) == order_ticket # 0

\* place_order and the bookkeeping of process_symbol_timeframe after it; the
\* gateway accepts the order when io.accept holds the pair and a ticket is left
place_order(st, symbol, timeframe, is_buy, plan, magic, current_bars, io) ==
    LET accepted == << symbol, timeframe >> \in io.accept /\ st.next_ticket <= MaxTicket
        ticket   == st.next_ticket
        request  == [ symbol |-> symbol, timeframe |-> timeframe,
                      type |-> IF is_buy THEN "BUY_LIMIT" ELSE "SELL_LIMIT",
                      volume |-> plan.lots, price |-> plan.price,
                      sl |-> plan.sl, tp |-> plan.tp, magic |-> magic ]
        logged   == [ request |-> request, plan |-> plan,
                      info |-> At(io.mkt, << symbol, timeframe >>).info,
                      current_bars |-> current_bars,
                      last_trade_bar |-> st.last_trade_bar[<< symbol, timeframe >>],
                      accepted |-> accepted,
                      ticket |-> IF accepted THEN ticket ELSE 0 ]
        sent     == IF accepted
                    THEN [ st EXCEPT
                             !.placed = Append(@, logged),
                             !.gw_orders = @ \cup
                                 { [ ticket |-> ticket, symbol |-> symbol,
                                     magic |-> magic, type |-> request.type,
                                     volume |-> plan.lots, price |-> plan.price,
                                     sl |-> plan.sl, tp |-> plan.tp ] },
                             !.next_ticket = @ + 1 ]
                    ELSE [ st EXCEPT !.placed = Append(@, logged) ]
    IN  IF order_ticket_given(logged.ticket)
        THEN [ sent EXCEPT
                 !.last_trade_bar[<< symbol, timeframe >>] = current_bars,
                 !.active_orders = Append(@, PendingOrder(logged.ticket, symbol,
                                                          timeframe, current_bars,
                                                          magic)) ]
        ELSE sent

\* process_symbol_timeframe from "New trade logic" on
new_trade(st, symbol, timeframe, is_buy, current_bars, io) ==
    LET m     == At(io.mkt, << symbol, timeframe >>)
        magic == MagicOfOrder(symbol, timeframe)
        plan  == order_plan(symbol, m.info, m.ind.atr_fast, is_buy)
    IN  IF ~m.info.available THEN st
        ELSE IF plan.lots < MIN_LOT_SIZE THEN st
        ELSE IF plan.lots > 0
        THEN place_order(st, symbol, timeframe, is_buy, plan, magic, current_bars, io)
        ELSE st

\* an engine that goes on with whatever the failed indicator request left
indicators_usable_always(ind) == TRUE

\* process_symbol_timeframe: "if not indicators: return"; get_indicators
\* returns None when the history request fails
indicators_usable(ind) == ind.available

\* a capacity test that lets the engine reach one trade more
global_limit_reached_late(positions, orders) ==
    Len(positions.list) + Len(orders.list) > MAX_GLOBAL_TRADES

\* process_symbol_timeframe: "Skip if at max global trades"
global_limit_reached(positions, orders) ==
    Len(positions.list) + Len(orders.list) >= MAX_GLOBAL_TRADES

\* process_symbol_timeframe
process_symbol_timeframe(st, symbol, timeframe, io) ==
    LET pair         == << symbol, timeframe >>
        m            == At(io.mkt, pair)
        current_bars == get_bars_count(symbol, timeframe, io)
        st1          == [ st EXCEPT !.atr_current[pair] = m.ind.atr_fast ]
        st2          == manage_existing_positions(st1, symbol, timeframe, io)
        existing     == count_orders(symbol, MagicOfOrder(symbol, timeframe), io)
    IN  \* len(None) raises TypeError
        IF IsNone(io.positions) \/ IsNone(io.orders)
        THEN [ st EXCEPT !.raised = TRUE ]
        ELSE IF global_limit_reached(io.positions, io.orders)
        THEN st
        ELSE IF current_bars - st.last_trade_bar[pair] < MIN_BARS_BETWEEN_TRADES
        THEN st
        ELSE IF ~indicators_usable(m.ind) THEN st
        ELSE IF get_spread(m.info) > m.avg_spread * MAX_SPREAD_MULTIPLIER THEN st1
        ELSE IF (buy_condition(symbol, m.ind) \/ sell_condition(symbol, m.ind))
                  /\ existing < MAX_TRADES_PER_SYMBOL_TF
        THEN new_trade(st2, symbol, timeframe, buy_condition(symbol, m.ind),
                       current_bars, io)
        ELSE st2

\* on_timer: the two nested loops, from the i-th pair; an exception ends them
RECURSIVE process_from(_, _, _)
process_from(st, i, io) ==
    IF i > Len(PairList) \/ st.raised THEN st
    ELSE process_from(process_symbol_timeframe(st, PairList[i][1], PairList[i][2], io),
                      i + 1, io)

\* a watermark that follows the equity down
watermark_follow(high, current_equity) == current_equity

\* on_timer: "Update equity high watermark"
watermark(high, current_equity) ==
    IF current_equity > high THEN current_equity ELSE high

\* the engine state a tick starts from
tick_start ==
    [ active_orders |-> active_orders, last_trade_bar |-> last_trade_bar,
      atr_current |-> atr_current, gw_orders |-> gw_orders,
      gw_positions |-> gw_positions, next_ticket |-> next_ticket,
      placed |-> << >>, modified |-> << >>, cancels |-> << >>, raised |-> FALSE ]

\* on_timer after the connection check: acct is what account_info() returned
\* ([ok, equity], ok = FALSE for None), io the gateway's other answers.
\* The result holds the new engine fields, the tick's st and its outcome.
on_timer(acct, io) ==
    LET now      == Instants[io.now]
        e        == acct.equity
        high     == watermark(equity_high, e)
        newday   == is_new_trading_day(last_trading_day, now.date, WeekdayOf(now.date))
        start    == IF newday THEN e ELSE equity_at_start
        daily    == IF newday THEN 0 ELSE daily_profit_loss
        day      == IF newday THEN now.date ELSE last_trading_day
        cleaned  == cleanup_orders(tick_start, io)
        session  == is_trading_session(WeekdayOf(now.date), now.hour, now.minute)
        done     == process_from(cleaned, 1, io)
        fields(outcome, st) ==
            [ outcome |-> outcome, st |-> st, equity_high |-> high,
              equity_at_start |-> start, daily_profit_loss |-> daily,
              last_trading_day |-> day ]
    IN  IF ~acct.ok
        THEN [ outcome |-> "no_account", st |-> tick_start,
               equity_high |-> equity_high, equity_at_start |-> equity_at_start,
               daily_profit_loss |-> daily_profit_loss,
               last_trading_day |-> last_trading_day ]
        ELSE IF DailyLossBreach(daily, start) THEN fields("daily_loss", tick_start)
        ELSE IF DrawdownBreach(high, e) THEN fields("drawdown", tick_start)
        ELSE IF cleaned.raised THEN fields("raised", cleaned)
        ELSE IF ENABLE_SESSION /\ ~session THEN fields("no_session", cleaned)
        ELSE IF done.raised THEN fields("raised", done)
        ELSE fields("processed", done)

(***************************************************************************)
(* Actions                                                                 *)
(***************************************************************************)
\* account_info(): None, or an account with an equity
NoAccount == [ ok |-> FALSE, equity |-> 0 ]

Account(equity) == [ ok |-> TRUE, equity |-> equity ]

\* self.last_trading_day = None
NoDay == 0

\* a gateway position as positions_get() reports it, with its floating profit
Reported(q, profit) ==
    [ ticket |-> q.ticket, symbol |-> q.symbol, magic |-> q.magic, type |-> q.type,
      volume |-> q.volume, price_open |-> q.price_open, sl |-> q.sl, tp |-> q.tp,
      profit |-> profit ]

\* the pairs for which a market shows a trade signal
SignalPairs(mkt) ==
    { p \in DOMAIN mkt : mkt[p].ind.available
          /\ (buy_condition(p[1], mkt[p].ind) \/ sell_condition(p[1], mkt[p].ind)) }

NoMarket == Market(NoData, NoData)

\* an engine that goes on with the tick whatever the connection check said
check_connection_proceed(conn) ==
    [ ok |-> TRUE, reconnects |-> IF conn = "connected" THEN 0 ELSE 1 ]

\* check_connection: the terminal reports "connected", or it reports the
\* connection lost (or the query raises) and the one call of initialize_mt5
\* has "reconnected" or "failed"
check_connection(conn) ==
    [ ok |-> conn # "failed", reconnects |-> IF conn = "connected" THEN 0 ELSE 1 ]

IdleTick(outcome, conn) ==
    [ outcome |-> outcome, conn |-> conn,
      reconnects |-> check_connection(conn).reconnects, now |-> clock, read |-> FALSE,
      equity |-> 0, tracked |-> << >>, mkt |-> NoMarket, placed |-> << >>,
      modified |-> << >>, cancels |-> << >> ]

\* "Process every 5 seconds", in tenths of a second
TIMER_INTERVAL == 50

\* time.sleep(0.1), in tenths of a second
SLEEP == 1

\* time.time() when run is called, in tenths of a second
StartTime == 100

\* the last time the control loop is followed to
MaxTime == 165

\* how long a run of on_timer may take, in tenths of a second
TickDurations == { 1, 60 }

\* run: the state of the control loop when it reaches its while test for
\* the first time; gateway says whether the terminal connection is open
LoopInit ==
    [ pc |-> "while", running |-> TRUE, last_check_time |-> 0, time |-> StartTime,
      gateway |-> "open", signalled |-> FALSE, conn |-> "connected",
      started_after_signal |-> FALSE, initialized |-> TRUE, exit_code |-> "none" ]

\* the process as main finds it after the imports and TradingEngine():
\*   "no_credentials"  config.py raised ValueError while engine.py imported
\*                     it: the interpreter ends with exit code 1;
\*   "no_gateway"      __init__ returned after "MT5 initialization failed",
\*                     before any field but running was assigned, and main
\*                     went on to run();
\*   "ok"              __init__ ran to its end
Startup(outcome) ==
    IF outcome = "no_credentials"
    THEN [ LoopInit EXCEPT !.pc = "done", !.running = FALSE, !.gateway = "closed",
                           !.initialized = FALSE, !.exit_code = "1" ]
    ELSE IF outcome = "no_gateway"
    THEN [ LoopInit EXCEPT !.gateway = "closed", !.initialized = FALSE ]
    ELSE LoopInit

\* a loop that runs on_timer on every pass
timer_due_always(current_time, last_check_time) == TRUE

\* run: "if current_time - last_check_time >= 5"
timer_due(current_time, last_check_time) ==
    current_time - last_check_time >= TIMER_INTERVAL

\* One run of on_timer.  env bounds what the gateway may answer:
\*   [conns, accounts, fetches, profits, markets, cancels, modifies]
\* check_connection: "connected", or the terminal was disconnected and
\* initialize_mt5 "reconnected" or "failed".
\* refresh_cached_data: fetch says which of positions_get / orders_get
\* returned None.
Tick(env) ==
    /\ alive
    /\ \E conn \in env.conns :
         IF ~check_connection(conn).ok
         THEN /\ tick' = IdleTick("no_connection", conn)
              /\ UNCHANGED << equity_high, equity_at_start, daily_profit_loss,
                              last_trading_day, active_orders, last_trade_bar,
                              atr_current, cached_data, alive, clock, gw_orders,
                              gw_positions, next_ticket >>
         ELSE \E acct \in env.accounts, fetch \in env.fetches,
                 profit \in (IF gw_positions = {} THEN { 0 } ELSE env.profits) :
              LET positions == IF fetch = "positions_none" THEN FetchedNone
                               ELSE Fetched(ByTicket({ Reported(q, profit) :
                                                        q \in gw_positions }))
                  orders    == IF fetch = "orders_none" THEN FetchedNone
                               ELSE Fetched(ByTicket(gw_orders))
                  io0       == [ positions |-> positions, orders |-> orders,
                                 mkt |-> NoMarket, now |-> clock, accept |-> {},
                                 modify_ok |-> TRUE, cancel |-> "ok" ]
                  halted    == on_timer(acct, io0).outcome
                                   \in { "no_account", "daily_loss", "drawdown" }
              IN  \E mkt \in (IF halted THEN { NoMarket } ELSE env.markets),
                     cancel \in (IF halted \/ active_orders = << >> THEN { "ok" }
                                 ELSE env.cancels),
                     modify_ok \in (IF halted \/ gw_positions = {} THEN { TRUE }
                                    ELSE env.modifies) :
                  \E accept \in (IF halted \/ next_ticket > MaxTicket THEN { {} }
                                 ELSE SUBSET SignalPairs(mkt)) :
                  LET io == [ io0 EXCEPT !.mkt = mkt, !.accept = accept,
                                         !.modify_ok = modify_ok, !.cancel = cancel ]
                  IN  \E r \in { on_timer(acct, io) } :
                      /\ equity_high' = r.equity_high
                      /\ equity_at_start' = r.equity_at_start
                      /\ daily_profit_loss' = r.daily_profit_loss
                      /\ last_trading_day' = r.last_trading_day
                      /\ active_orders' = r.st.active_orders
                      /\ last_trade_bar' = r.st.last_trade_bar
                      /\ atr_current' = r.st.atr_current
                      /\ cached_data' = [ account_info |-> acct,
                                          positions |-> positions, orders |-> orders ]
                      /\ alive' = (r.outcome # "raised")
                      /\ gw_orders' = r.st.gw_orders
                      /\ gw_positions' = r.st.gw_positions
                      /\ next_ticket' = r.st.next_ticket
                      /\ tick' = [ outcome |-> r.outcome, conn |-> conn,
                                   reconnects |-> check_connection(conn).reconnects,
                                   now |-> clock, read |-> acct.ok, equity |-> acct.equity,
                                   tracked |-> active_orders, mkt |-> mkt,
                                   placed |-> r.st.placed,
                                   modified |-> r.st.modified,
                                   cancels |-> r.st.cancels ]
                      /\ UNCHANGED clock

\* on_timer called by the control loop, the loop itself left out
OnTimer(env) == Tick(env) /\ UNCHANGED loop

\* time passes: the clock reaches a later instant, at most the last-th
Advance(last) ==
    /\ alive
    /\ \E i \in (clock + 1)..last : clock' = i
    /\ UNCHANGED << equity_high, equity_at_start, daily_profit_loss,
                    last_trading_day, active_orders, last_trade_bar, atr_current,
                    cached_data, alive, gw_orders, gw_positions, next_ticket, tick, loop >>

\* the market reaches a pending order's limit price: it becomes a position
Fill ==
    /\ alive
    /\ \E o \in gw_orders :
         /\ gw_orders' = gw_orders \ { o }
         /\ gw_positions' = gw_positions \cup
              { [ ticket |-> o.ticket, symbol |-> o.symbol, magic |-> o.magic,
                  type |-> IF o.type = "BUY_LIMIT" THEN "BUY" ELSE "SELL",
                  volume |-> o.volume, price_open |-> o.price,
                  sl |-> o.sl, tp |-> o.tp ] }
    /\ UNCHANGED << equity_high, equity_at_start, daily_profit_loss,
                    last_trading_day, active_orders, last_trade_bar, atr_current,
                    cached_data, alive, clock, next_ticket, tick, loop >>

\* a pending order expires at the broker, or the trader deletes it
OrderGone ==
    /\ alive
    /\ \E o \in gw_orders : gw_orders' = gw_orders \ { o }
    /\ UNCHANGED << equity_high, equity_at_start, daily_profit_loss,
                    last_trading_day, active_orders, last_trade_bar, atr_current,
                    cached_data, alive, clock, gw_positions, next_ticket, tick, loop >>

\* a position is closed at its stop or take-profit, or by the trader
PositionClosed ==
    /\ alive
    /\ \E q \in gw_positions : gw_positions' = gw_positions \ { q }
    /\ UNCHANGED << equity_high, equity_at_start, daily_profit_loss,
                    last_trading_day, active_orders, last_trade_bar, atr_current,
                    cached_data, alive, clock, gw_orders, next_ticket, tick, loop >>

\* the trader removes a position's stop in the terminal: sl = 0.0
StopRemoved ==
    /\ alive
    /\ \E q \in gw_positions :
         /\ q.sl # 0
         /\ gw_positions' = (gw_positions \ { q }) \cup { [ q EXCEPT !.sl = 0 ] }
    /\ UNCHANGED << equity_high, equity_at_start, daily_profit_loss,
                    last_trading_day, active_orders, last_trade_bar, atr_current,
                    cached_data, alive, clock, gw_orders, next_ticket, tick, loop >>

\* everything but the control loop
engine_and_gateway ==
    << equity_high, equity_at_start, daily_profit_loss, last_trading_day,
       active_orders, last_trade_bar, atr_current, cached_data, alive,
       clock, gw_orders, gw_positions, next_ticket, tick >>

\* the gateway's answers with the connection check already made
Connected(env, conn) == [ env EXCEPT !.conns = { conn } ]

\* the answers of a terminal after mt5.shutdown(): account_info() is None
ShutDown(env) == [ env EXCEPT !.accounts = { NoAccount } ]

\* run: "while self.running:"
LoopTest ==
    /\ alive
    /\ loop.pc = "while"
    /\ loop' = IF loop.running THEN [ loop EXCEPT !.pc = "if" ]
               ELSE [ loop EXCEPT !.pc = "done", !.exit_code = "0" ]
    /\ UNCHANGED engine_and_gateway

\* run: current_time = time.time() and the test of the interval; a tick
\* starts with last_check_time = current_time
LoopClock ==
    /\ alive
    /\ loop.pc = "if"
    /\ loop' = IF timer_due(loop.time, loop.last_check_time)
               THEN [ loop EXCEPT !.pc = "on_timer",
                                  !.last_check_time = loop.time,
                                  !.started_after_signal = @ \/ loop.signalled ]
               ELSE [ loop EXCEPT !.pc = "sleep" ]
    /\ UNCHANGED engine_and_gateway

\* on_timer up to the return of check_connection: a terminal that was shut
\* down has no terminal_info, and initialize_mt5 opens it again or fails
TimerEnter ==
    /\ alive
    /\ loop.pc = "on_timer"
    /\ \E conn \in (IF loop.gateway = "open" THEN { "connected" }
                    ELSE { "reconnected", "failed" }) :
         IF check_connection(conn).ok
         THEN /\ loop' = [ loop EXCEPT !.pc = "body", !.conn = conn,
                                       !.gateway = "open" ]
              /\ UNCHANGED engine_and_gateway
         ELSE /\ loop' = [ loop EXCEPT !.pc = "sleep", !.conn = conn ]
              /\ Tick([ conns |-> { conn }, accounts |-> {}, fetches |-> {},
                        profits |-> {}, markets |-> {}, cancels |-> {},
                        modifies |-> {} ])

\* on_timer from refresh_cached_data to its end, taking some time
TimerBody(env) ==
    /\ alive
    /\ loop.initialized
    /\ loop.pc = "body"
    /\ \E d \in TickDurations :
         /\ loop.time + d <= MaxTime
         /\ loop' = [ loop EXCEPT !.pc = "sleep", !.time = @ + d ]
    /\ Tick(Connected(IF loop.gateway = "open" THEN env ELSE ShutDown(env),
                      loop.conn))

\* on_timer from refresh_cached_data on, in an engine whose __init__ returned
\* early: self.cached_data does not exist, the AttributeError of
\* refresh_cached_data is caught there, the next one leaves on_timer and run,
\* and main logs it and returns
TimerBodyBare ==
    /\ alive
    /\ ~loop.initialized
    /\ loop.pc = "body"
    /\ loop' = [ loop EXCEPT !.pc = "done", !.exit_code = "0" ]
    /\ tick' = IdleTick("raised", loop.conn)
    /\ alive' = FALSE
    /\ UNCHANGED << equity_high, equity_at_start, daily_profit_loss,
                    last_trading_day, active_orders, last_trade_bar, atr_current,
                    cached_data, clock, gw_orders, gw_positions, next_ticket >>

\* run: time.sleep(0.1)
Sleep ==
    /\ alive
    /\ loop.pc = "sleep"
    /\ loop.time + SLEEP <= MaxTime
    /\ loop' = [ loop EXCEPT !.pc = "while", !.time = @ + SLEEP ]
    /\ UNCHANGED engine_and_gateway

\* graceful_shutdown, the handler of SIGINT and SIGTERM: it runs in the main
\* thread between two instructions of whatever run is doing
GracefulShutdown ==
    /\ alive
    /\ loop.initialized
    /\ ~loop.signalled
    /\ loop.pc # "done"
    /\ loop' = [ loop EXCEPT !.running = FALSE, !.gateway = "closed",
                             !.signalled = TRUE ]
    /\ UNCHANGED engine_and_gateway

\* TradingEngine.__init__ after a successful initialize_mt5:
\* equity_high = account_info.equity if account_info else 10000
InitWith(equities, start) ==
    /\ equity_high \in equities
    /\ equity_at_start = equity_high
    /\ daily_profit_loss = 0
    /\ last_trading_day = NoDay
    /\ active_orders = << >>
    /\ last_trade_bar = [ p \in Pairs |-> -10 ]
    /\ atr_current = [ p \in Pairs |-> 0 ]
    /\ cached_data = [ account_info |-> NoAccount, positions |-> Fetched(<< >>),
                       orders |-> Fetched(<< >>) ]
    /\ alive = TRUE
    /\ clock = start
    /\ gw_orders = {}
    /\ gw_positions = {}
    /\ next_ticket = 1
    /\ tick = IdleTick("none", "connected")
    /\ loop = LoopInit

(***************************************************************************)
(* Specifications.  Each bounds the gateway's answers to the part of the   *)
(* engine it exercises; the engine's code is the same in all of them.      *)
(***************************************************************************)
\* Order placement and sizing at a healthy account, in session.
PlacementEnv ==
    [ conns |-> { "connected" }, accounts |-> { Account(10000) },
      fetches |-> { "ok" }, profits |-> { 60 },
      markets |-> { GoldBuyWideStop, BothBuy, GoldSell, QuietUp },
      cancels |-> { "ok" }, modifies |-> { TRUE } ]

Init == InitWith({ 10000 }, 1)

Next ==
    \/ OnTimer(PlacementEnv)
    \/ Advance(2)
    \/ Fill

Spec == Init /\ [][Next]_vars

\* Trailing of open positions: the price moves, the floating profit varies,
\* the gateway may reject a modification, the trader may remove a stop.
TrailEnv ==
    [ conns |-> { "connected" }, accounts |-> { Account(10000) },
      fetches |-> { "ok" }, profits |-> ProfitValues,
      markets |-> { GoldBuy, GoldSell, QuietMid, QuietUp, QuietDown },
      cancels |-> { "ok" }, modifies |-> BOOLEAN ]

NextTrail ==
    \/ OnTimer(TrailEnv)
    \/ Advance(2)
    \/ Fill
    \/ StopRemoved
    \/ PositionClosed

SpecTrail == Init /\ [][NextTrail]_vars

\* The ledger of tracked orders: bars pass, orders fill or vanish, the
\* gateway answers a cancellation in any of its ways.
LedgerEnv ==
    [ conns |-> { "connected" }, accounts |-> { Account(10000) },
      fetches |-> { "ok" }, profits |-> { 60 },
      markets |-> { GoldBuy, BitcoinBuy, QuietMid, NoFeed },
      cancels |-> { "ok", "gone", "fail" }, modifies |-> { TRUE } ]

NextLedger ==
    \/ OnTimer(LedgerEnv)
    \/ Advance(4)
    \/ Fill
    \/ OrderGone

SpecLedger == Init /\ [][NextLedger]_vars

\* The account: any equity, a lost terminal, a missing account record, a new
\* trading day.
RiskEnv ==
    [ conns |-> { "connected", "failed" },
      accounts |-> { NoAccount } \cup { Account(e) : e \in EquityValues },
      fetches |-> { "ok" }, profits |-> { 60 },
      markets |-> { GoldBuy, QuietUp },
      cancels |-> { "ok" }, modifies |-> { TRUE } ]

InitRisk == InitWith({ 0, 10000 }, 1)

NextRisk ==
    \/ OnTimer(RiskEnv)
    \/ Advance(2)
    \/ Fill

SpecRisk == InitRisk /\ [][NextRisk]_vars

\* The week: every instant of Instants, at a healthy account.
SessionEnv ==
    [ conns |-> { "connected" }, accounts |-> { Account(10000) },
      fetches |-> { "ok" }, profits |-> { 60 },
      markets |-> { GoldBuy, QuietUp },
      cancels |-> { "ok" }, modifies |-> { TRUE } ]

NextSession ==
    \/ OnTimer(SessionEnv)
    \/ Advance(Len(Instants))
    \/ Fill

SpecSession == Init /\ [][NextSession]_vars

\* positions of the same account that other programs or the trader opened:
\* positions_get() reports them with the engine's own
ForeignPositions(n) ==
    { [ ticket |-> 100 + k, symbol |-> "EURUSD", magic |-> 0, type |-> "BUY",
        volume |-> 10, price_open |-> 110, sl |-> 0, tp |-> 0 ] : k \in 1..n }

\* The account one trade below the global limit when the engine starts.
InitCapacity ==
    /\ equity_high = 10000
    /\ equity_at_start = equity_high
    /\ daily_profit_loss = 0
    /\ last_trading_day = NoDay
    /\ active_orders = << >>
    /\ last_trade_bar = [ p \in Pairs |-> -10 ]
    /\ atr_current = [ p \in Pairs |-> 0 ]
    /\ cached_data = [ account_info |-> NoAccount, positions |-> Fetched(<< >>),
                       orders |-> Fetched(<< >>) ]
    /\ alive = TRUE
    /\ clock = 1
    /\ gw_orders = {}
    /\ gw_positions = ForeignPositions(MAX_GLOBAL_TRADES - 1)
    /\ next_ticket = 1
    /\ tick = IdleTick("none", "connected")
    /\ loop = LoopInit

CapacityEnv ==
    [ conns |-> { "connected" }, accounts |-> { Account(10000) },
      fetches |-> { "ok" }, profits |-> { 60 },
      markets |-> { GoldBuy, BothBuy, QuietUp },
      cancels |-> { "ok" }, modifies |-> { TRUE } ]

NextCapacity ==
    \/ OnTimer(CapacityEnv)
    \/ Advance(2)
    \/ Fill

SpecCapacity == InitCapacity /\ [][NextCapacity]_vars

\* Two ticks one M5 bar apart, Monday 00:00 and 00:05; between them an order
\* may fill, be deleted, and a position may be closed.
CooldownEnv ==
    [ conns |-> { "connected" }, accounts |-> { Account(10000) },
      fetches |-> { "ok" }, profits |-> { 60 },
      markets |-> { GoldBuy, BothBuy, QuietMid },
      cancels |-> { "ok" }, modifies |-> { TRUE } ]

InitCooldown == InitWith({ 10000 }, 8)

NextCooldown ==
    \/ OnTimer(CooldownEnv)
    \/ Advance(9)
    \/ Fill
    \/ OrderGone
    \/ PositionClosed

SpecCooldown == InitCooldown /\ [][NextCooldown]_vars

\* The signal: setups, setups that miss one condition, a pair whose
\* indicators cannot be had.
SignalEnv ==
    [ conns |-> { "connected" }, accounts |-> { Account(10000) },
      fetches |-> { "ok" }, profits |-> { 60 },
      markets |-> { GoldBuy, GoldSell, BitcoinBuy, BitcoinSell, BothBuy,
                    GoldLostBitcoinBuy, QuietMid } \cup NearMisses,
      cancels |-> { "ok" }, modifies |-> { TRUE } ]

NextSignal ==
    \/ OnTimer(SignalEnv)
    \/ Advance(2)

SpecSignal == Init /\ [][NextSignal]_vars

\* The gateway at fault: the terminal loses its connection, positions_get
\* or orders_get returns None, a pair has no bars, an order is rejected.
FaultEnv ==
    [ conns |-> { "connected", "reconnected", "failed" },
      accounts |-> { Account(10000) },
      fetches |-> { "ok", "positions_none", "orders_none" }, profits |-> { 60 },
      markets |-> { GoldBuy, BothBuy, NoFeed },
      cancels |-> { "ok" }, modifies |-> { TRUE } ]

NextFault ==
    \/ OnTimer(FaultEnv)
    \/ Advance(2)
    \/ Fill

SpecFault == Init /\ [][NextFault]_vars

\* The calendar: ticks through every instant of the week, with an equity
\* that moves, a lost connection or a missing account record.
RolloverEnv ==
    [ conns |-> { "connected", "failed" },
      accounts |-> { NoAccount, Account(9400), Account(10000) },
      fetches |-> { "ok" }, profits |-> { 60 },
      markets |-> { QuietMid },
      cancels |-> { "ok" }, modifies |-> { TRUE } ]

NextRollover ==
    \/ OnTimer(RolloverEnv)
    \/ Advance(Len(Instants))

SpecRollover == Init /\ [][NextRollover]_vars

\* The start of trailing: a gold position at a loss, short of one risk unit
\* or past it, with and without usable symbol info.
TrailStartEnv ==
    [ conns |-> { "connected" }, accounts |-> { Account(10000) },
      fetches |-> { "ok" }, profits |-> { -60, 40, 60 },
      markets |-> { GoldBuy, QuietUp, GoldUpNoInfo, GoldUpNoTickValue },
      cancels |-> { "ok" }, modifies |-> { TRUE } ]

NextTrailStart ==
    \/ OnTimer(TrailStartEnv)
    \/ Advance(2)
    \/ Fill

SpecTrailStart == Init /\ [][NextTrailStart]_vars

\* The control loop: run, on_timer in two steps, and the signal handler.
RunEnv ==
    [ conns |-> { "connected" }, accounts |-> { Account(10000) },
      fetches |-> { "ok" }, profits |-> { 60 },
      markets |-> { GoldBuy, QuietMid },
      cancels |-> { "ok" }, modifies |-> { TRUE } ]

NextRun ==
    \/ LoopTest
    \/ LoopClock
    \/ TimerEnter
    \/ TimerBody(RunEnv)
    \/ Sleep
    \/ GracefulShutdown

SpecRun == Init /\ [][NextRun]_vars

\* The start of the process: with and without credentials, with and without
\* a terminal to initialize.
InitStartup ==
    /\ equity_high = 10000
    /\ equity_at_start = equity_high
    /\ daily_profit_loss = 0
    /\ last_trading_day = NoDay
    /\ active_orders = << >>
    /\ last_trade_bar = [ p \in Pairs |-> -10 ]
    /\ atr_current = [ p \in Pairs |-> 0 ]
    /\ cached_data = [ account_info |-> NoAccount, positions |-> Fetched(<< >>),
                       orders |-> Fetched(<< >>) ]
    /\ alive = TRUE
    /\ clock = 1
    /\ gw_orders = {}
    /\ gw_positions = {}
    /\ next_ticket = 1
    /\ tick = IdleTick("none", "connected")
    /\ \E outcome \in { "ok", "no_credentials", "no_gateway" } :
         loop = Startup(outcome)

NextStartup ==
    \/ LoopTest
    \/ LoopClock
    \/ TimerEnter
    \/ TimerBody(RunEnv)
    \/ TimerBodyBare
    \/ Sleep
    \/ GracefulShutdown

SpecStartup == InitStartup /\ [][NextStartup]_vars

(***************************************************************************)
(* Properties                                                              *)
(***************************************************************************)
\* the tick placed no order and modified no position
Idle == tick.placed = << >> /\ tick.modified = << >>

\* C1: the magic number is BASE_MAGIC + 1000 * symbol index + 10 * timeframe
\* index; it differs for any two distinct (symbol, timeframe) pairs, lies in
\* [BASE_MAGIC, BASE_MAGIC + 1000 * number of symbols), and the value used
\* when placing an order is the value the trailer attributes positions with.
\* Hence every order and position at the gateway belongs to exactly one pair.
MagicIsOneToOne ==
    /\ \A p \in Pairs, q \in Pairs :
         p # q => MagicOfOrder(p[1], p[2]) # MagicOfOrder(q[1], q[2])
    /\ \A p \in Pairs :
         /\ MagicOfOrder(p[1], p[2])
              = BASE_MAGIC + (IndexOf(SYMBOLS, p[1]) * 1000)
                           + (IndexOf(TIMEFRAMES, p[2]) * 10)
         /\ MagicOfOrder(p[1], p[2]) >= BASE_MAGIC
         /\ MagicOfOrder(p[1], p[2]) < BASE_MAGIC + (Len(SYMBOLS) * 1000)
         /\ MagicOfTrailer(p[1], p[2]) = MagicOfOrder(p[1], p[2])
    /\ \A o \in gw_orders :
         Cardinality({ p \in Pairs : MagicOfTrailer(p[1], p[2]) = o.magic
                                       /\ p[1] = o.symbol }) = 1
    /\ \A q \in gw_positions :
         Cardinality({ p \in Pairs : MagicOfTrailer(p[1], p[2]) = q.magic
                                       /\ p[1] = q.symbol }) = 1

\* two orders for different pairs placed in one tick
MagicWitness ==
    /\ Len(tick.placed) = 2
    /\ tick.placed[1].accepted /\ tick.placed[2].accepted
    /\ tick.placed[1].request.magic # tick.placed[2].request.magic

\* C2: a tick that reads an equity whose drawdown from the watermark (updated
\* with that equity) is at least MAX_DRAWDOWN_PERCENT halts: it places no
\* order and modifies no position; below the threshold the drawdown breaker
\* does not halt it.  With a watermark of 10000, 9400 passes and 8900 halts.
DrawdownHalts ==
    (tick.read /\ equity_high > 0) =>
      /\ ((equity_high - tick.equity) * 100 >= MAX_DRAWDOWN_PERCENT * equity_high)
           => (tick.outcome \in { "daily_loss", "drawdown" } /\ Idle)
      /\ ((equity_high - tick.equity) * 100 < MAX_DRAWDOWN_PERCENT * equity_high)
           => tick.outcome # "drawdown"
      /\ (equity_high = 10000 /\ tick.equity = 9400) => tick.outcome # "drawdown"
      /\ (equity_high = 10000 /\ tick.equity = 8900)
           => (tick.outcome \in { "daily_loss", "drawdown" } /\ Idle)

\* the equity fell to 8900 under a watermark of 10000 while a position was
\* open and the market showed a signal the engine did not act on
DrawdownWitness ==
    /\ tick.outcome = "drawdown"
    /\ tick.equity = 8900 /\ equity_high = 10000
    /\ cached_data.positions.list # << >>

\* C3: equity_high never decreases, whatever the tick (skipped, halted, at a
\* daily rollover), and after a tick that read the account equity it is at
\* least that equity.
EquityHighMonotonic ==
    [][ /\ equity_high' >= equity_high
        /\ tick'.read => equity_high' >= tick'.equity ]_vars

\* a tick read an equity below the watermark on a new trading day
EquityHighWitness ==
    /\ tick.read /\ tick.equity < equity_high
    /\ last_trading_day = 2 /\ Instants[tick.now].date = 2
    /\ equity_at_start = tick.equity

\* C4: a tick at which daily_profit_loss <= -(equity_at_start *
\* DAILY_LOSS_PERCENT / 100), after the daily rollover, halts: it places no
\* order and modifies no position; otherwise the daily-loss breaker does not
\* halt it.  With equity_at_start = 10000 the limit is 500: a loss of 499
\* passes, a loss of 500 or 501 halts.
DailyLossHalts ==
    /\ tick.read =>
         IF daily_profit_loss * 100 <= -(equity_at_start * DAILY_LOSS_PERCENT)
         THEN tick.outcome = "daily_loss" /\ Idle
         ELSE tick.outcome # "daily_loss"
    /\ ~DailyLossBreach(-499, 10000)
    /\ DailyLossBreach(-500, 10000)
    /\ DailyLossBreach(-501, 10000)

\* the breaker halted a tick: the day started at an equity of 0
DailyLossWitness ==
    /\ tick.read /\ tick.outcome = "daily_loss"
    /\ daily_profit_loss * 100 <= -(equity_at_start * DAILY_LOSS_PERCENT)
    /\ equity_high > 0

\* the session the gate is meant to keep: Monday..Thursday all day, Sunday
\* from SUNDAY_OPEN, Friday before DAILY_CLOSE, Saturday never
InSession(weekday, hour, minute) ==
    CASE weekday \in 0..3 -> TRUE
      [] weekday = 4 -> hour * 60 + minute < DAILY_CLOSE_HOUR * 60 + DAILY_CLOSE_MIN
      [] weekday = 5 -> FALSE
      [] weekday = 6 -> hour * 60 + minute >= SUNDAY_OPEN_HOUR * 60 + SUNDAY_OPEN_MIN

\* C5: is_trading_session is true exactly on Monday..Thursday, on Sunday from
\* 22:15 and on Friday before 21:45 (Africa/Lagos), false on Saturday; a tick
\* at an instant where it is false places no order and modifies no position.
SessionGate ==
    /\ \A weekday \in 0..6, hour \in 0..23, minute \in 0..59 :
         is_trading_session(weekday, hour, minute) <=> InSession(weekday, hour, minute)
    /\ LET t == Instants[tick.now]
       IN  /\ ~InSession(WeekdayOf(t.date), t.hour, t.minute) => Idle
           /\ (tick.read /\ tick.outcome \notin { "daily_loss", "drawdown", "raised" })
                => (tick.outcome = "no_session"
                      <=> ~InSession(WeekdayOf(t.date), t.hour, t.minute))

\* Friday 21:45: the market shows a signal, the engine leaves it
SessionWitness ==
    /\ tick.outcome = "no_session"
    /\ Instants[tick.now] = [date |-> 2, hour |-> 21, minute |-> 45]
    /\ tick.mkt = GoldBuy

\* C6, as stated: every stop the trailer sends is, for a long position,
\* strictly above the position's current stop and strictly below the current
\* price, and for a short position strictly below the current stop and
\* strictly above the current price.
TrailingTightensStrictly ==
    \A i \in 1..Len(tick.modified) :
        LET m == tick.modified[i]
        IN  IF m.type = "BUY"
            THEN m.sl > m.current_sl /\ m.sl < m.current_price
            ELSE m.sl < m.current_sl /\ m.sl > m.current_price

\* C6: every stop the trailer sends is, for a long position, strictly above
\* the position's current stop and strictly below the current price (the ask
\* the trailer reads); for a short position it is strictly above the current
\* price (the bid) and, when the position has a stop, strictly below it.  At
\* the gateway a stop that moves to a new value moves up for a long and down
\* for a short that had one.
TrailingTightens ==
    /\ [](\A i \in 1..Len(tick.modified) :
            LET m == tick.modified[i]
            IN  IF m.type = "BUY"
                THEN m.sl > m.current_sl /\ m.sl < m.current_price
                ELSE (m.current_sl # 0 => m.sl < m.current_sl)
                       /\ m.sl > m.current_price)
    /\ [][ \A q \in gw_positions : \A r \in gw_positions' :
             (r.ticket = q.ticket /\ r.sl # q.sl /\ r.sl # 0) =>
                IF q.type = "BUY" THEN r.sl > q.sl
                ELSE (q.sl # 0 => r.sl < q.sl) ]_vars

\* the trailer raised the stop of a long position and the gateway took it
TrailingWitness ==
    /\ tick.modified # << >>
    /\ tick.modified[1].accepted
    /\ tick.modified[1].type = "BUY"
    /\ tick.modified[1].current_sl # 0
    /\ \E q \in gw_positions :
          q.ticket = tick.modified[1].ticket /\ q.sl = tick.modified[1].sl

\* the completed bars between an order's placement bar and the newest bar
BarAge(order, now) ==
    (BarTime(now, order.timeframe) - order.placement_bar) \div (order.timeframe * 60)

\* C7: a tracked order still reported open is cancelled, by exactly one
\* request, and removed from active_orders when its bar-age is at least
\* ORDER_EXPIRATION_BARS, and is neither cancelled nor removed when its
\* bar-age is below ORDER_EXPIRATION_BARS.
OrderExpiresByBarAge ==
    tick.outcome \in { "no_session", "processed" } =>
      \A i \in 1..Len(tick.tracked) :
        LET order    == tick.tracked[i]
            reported == \E j \in 1..Len(cached_data.orders.list) :
                           cached_data.orders.list[j].ticket = order.ticket
            bars     == At(tick.mkt, << order.symbol, order.timeframe >>).bars
            requests == { j \in 1..Len(tick.cancels) :
                            tick.cancels[j].ticket = order.ticket }
            tracked  == \E j \in 1..Len(active_orders) : active_orders[j] = order
        IN  (reported /\ bars) =>
              IF BarAge(order, tick.now) >= ORDER_EXPIRATION_BARS
              THEN Cardinality(requests) = 1 /\ ~tracked
              ELSE requests = {} /\ tracked

\* C8: an expired tracked order whose cancel request the gateway rejected
\* stays in active_orders.
FailedCancelStaysTracked ==
    \A j \in 1..Len(tick.cancels) :
        tick.cancels[j].result = "fail" =>
            \E k \in 1..Len(active_orders) :
                active_orders[k].ticket = tick.cancels[j].ticket

\* the loss at the stop of a placed order, in 1/10000 of a dollar:
\* |entry - stop| * dollar_per_point * contract_size * lots
RiskAtStop(order) ==
    risk_per_lot(order.request.symbol, order.info, order.request.price,
                 order.request.sl) * order.request.volume

\* C9: every order the engine places risks at its stop no more than
\* RISK_PER_TRADE plus the rounding of the lot size to the volume step (half
\* a step of risk).
RiskWithinBudget ==
    \A i \in 1..Len(tick.placed) :
        LET order == tick.placed[i]
            half  == (risk_per_lot(order.request.symbol, order.info,
                                   order.request.price, order.request.sl)
                        * order.info.volume_step) \div 2
        IN  order.accepted =>
              RiskAtStop(order) <= (RISK_PER_TRADE * 100 * 100) + half + 1

\* C10: an order placed at the capped lot has the stop of
\* adjust_risk_for_fixed_dollar, and the risk of that stop, by the sizer's
\* formula, is RISK_PER_TRADE (up to one price step of the stop).
CappedOrderRisksBudget ==
    \A i \in 1..Len(tick.placed) :
        LET order == tick.placed[i]
            step  == calculate_dollar_risk_per_point(order.request.symbol, order.info)
                       * order.info.trade_contract_size * order.request.volume
        IN  (order.accepted /\ order.plan.capped) =>
              /\ order.request.volume = MAX_ALLOWED_LOT_SIZE
              /\ Abs(RiskAtStop(order) - (RISK_PER_TRADE * 100 * 100)) <= step

\* the positions and pending orders of the snapshot the last tick took
SnapshotTotal ==
    Len(cached_data.positions.list) + Len(cached_data.orders.list)

\* C11: a tick whose snapshot holds at least MAX_GLOBAL_TRADES positions and
\* pending orders places no order, for any pair.
GlobalCapacityGate ==
    SnapshotTotal >= MAX_GLOBAL_TRADES => tick.placed = << >>

\* the snapshot is at the limit, the tick is processed, and bitcoin, never
\* traded before, shows a buy signal
GlobalCapacityWitness ==
    /\ SnapshotTotal >= MAX_GLOBAL_TRADES
    /\ tick.outcome = "processed"
    /\ tick.mkt = BothBuy
    /\ last_trade_bar[BitcoinM15] = -10

\* a snapshot position of a pair whose stop the trailer would move at the
\* prices of the last tick: the pair has its quote and indicators, its spread
\* and cooldown pass, the profit is at least one unit and the new stop is
\* tighter than the current one and inside the price
TrailingDue(position, pair) ==
    LET m == At(tick.mkt, pair)
    IN  /\ position.symbol = pair[1]
        /\ position.magic = MagicOfTrailer(pair[1], pair[2])
        /\ m.bars /\ m.info.available /\ m.ind.available
        /\ get_spread(m.info) <= m.avg_spread * MAX_SPREAD_MULTIPLIER
        /\ BarTime(tick.now, pair[2]) - last_trade_bar[pair] >= MIN_BARS_BETWEEN_TRADES
        /\ profit_units(position) >= 1
        /\ trail_allowed(position,
                         trail_stop(position, pair[1], m.info, m.ind.atr_fast),
                         current_price(position, m.info))

\* C12: a processed tick whose snapshot is at the global limit still sends
\* the new stop of every position whose trailing is due.
TrailingRunsAtCapacity ==
    (tick.outcome = "processed" /\ SnapshotTotal >= MAX_GLOBAL_TRADES) =>
        \A j \in 1..Len(cached_data.positions.list) : \A pair \in ActivePairs :
            TrailingDue(cached_data.positions.list[j], pair) =>
                \E i \in 1..Len(tick.modified) :
                    tick.modified[i].ticket = cached_data.positions.list[j].ticket

\* C13: an order is placed for a pair that had an order placed before only
\* when the newest bar of its timeframe is at least MIN_BARS_BETWEEN_TRADES
\* bars after the bar of that earlier placement.
CooldownInBars ==
    \A i \in 1..Len(tick.placed) :
        LET order == tick.placed[i]
        IN  (order.accepted /\ order.last_trade_bar # -10) =>
              (order.current_bars - order.last_trade_bar)
                  \div (order.request.timeframe * 60) >= MIN_BARS_BETWEEN_TRADES

\* the snapshot's positions and pending orders with a symbol and a magic
SnapshotExposure(symbol, magic) ==
    Cardinality({ j \in 1..Len(cached_data.positions.list) :
                    /\ cached_data.positions.list[j].symbol = symbol
                    /\ cached_data.positions.list[j].magic = magic })
    + Cardinality({ j \in 1..Len(cached_data.orders.list) :
                      /\ cached_data.orders.list[j].symbol = symbol
                      /\ cached_data.orders.list[j].magic = magic })

\* C14: an order is placed for a pair only in a tick whose snapshot holds
\* fewer than MAX_TRADES_PER_SYMBOL_TF positions and pending orders with the
\* pair's symbol and magic; at the gateway the positions and pending orders
\* carrying a pair's magic never exceed MAX_TRADES_PER_SYMBOL_TF.
ExposureCap ==
    /\ \A i \in 1..Len(tick.placed) :
         SnapshotExposure(tick.placed[i].request.symbol, tick.placed[i].request.magic)
             < MAX_TRADES_PER_SYMBOL_TF
    /\ \A pair \in Pairs :
         Cardinality({ o \in gw_orders :
                         o.symbol = pair[1] /\ o.magic = MagicOfOrder(pair[1], pair[2]) })
         + Cardinality({ q \in gw_positions :
                           q.symbol = pair[1] /\ q.magic = MagicOfOrder(pair[1], pair[2]) })
             <= MAX_TRADES_PER_SYMBOL_TF

\* gold shows a signal a bar after its order filled; the position counts and
\* no second order is placed
ExposureWitness ==
    /\ tick.outcome = "processed"
    /\ tick.mkt \in { GoldBuyWideStop, GoldSell }
    /\ BarTime(tick.now, 5) - last_trade_bar[GoldM5] >= MIN_BARS_BETWEEN_TRADES
    /\ SnapshotExposure("XAUUSD", MagicOfOrder("XAUUSD", 5)) = 1
    /\ cached_data.orders.list = << >>
    /\ tick.placed = << >>

\* the pair an order was requested for
PlacedPair(order) == << order.request.symbol, order.request.timeframe >>

\* C15: no order is placed for a pair whose indicator snapshot is unavailable
\* in the tick, and a later pair of the same tick is still evaluated: bitcoin,
\* with a buy setup, no exposure and no earlier trade, gets its order
\* requested although gold, before it in the loop, has no indicators.
SignalFailsClosed ==
    /\ \A i \in 1..Len(tick.placed) :
         At(tick.mkt, PlacedPair(tick.placed[i])).ind.available
    /\ ( /\ tick.outcome = "processed"
         /\ tick.mkt \in { GoldLostBitcoinBuy, BitcoinBuy }
         /\ SnapshotTotal < MAX_GLOBAL_TRADES
         /\ SnapshotExposure("BTCUSD", MagicOfOrder("BTCUSD", 15)) = 0
         /\ BarTime(tick.now, 15) - last_trade_bar[BitcoinM15]
               >= MIN_BARS_BETWEEN_TRADES )
       => \E i \in 1..Len(tick.placed) : PlacedPair(tick.placed[i]) = BitcoinM15

\* gold's history request failed in a tick that placed bitcoin's order
SignalFailsClosedWitness ==
    /\ tick.mkt = GoldLostBitcoinBuy
    /\ Len(tick.placed) = 1
    /\ tick.placed[1].accepted
    /\ PlacedPair(tick.placed[1]) = BitcoinM15

\* the buy decision on the latest indicator values
BuyHolds(symbol, ind) ==
    /\ ENABLE_BUY
    /\ ind.atr_fast < ind.atr_slow
    /\ ind.close * 1000 < (ind.ma_fast * 1000) - (ind.ma_fast * minMaGapX10(symbol))
    /\ ind.close > ind.ma_slow
    /\ ind.rsi_prev > ind.rsi
    /\ ind.rsi < rsiUpper(symbol)

\* the sell decision, its mirror
SellHolds(symbol, ind) ==
    /\ ENABLE_SELL
    /\ ind.atr_fast < ind.atr_slow
    /\ ind.close * 1000 > (ind.ma_fast * 1000) + (ind.ma_fast * minMaGapX10(symbol))
    /\ ind.close < ind.ma_slow
    /\ ind.rsi_prev < ind.rsi
    /\ ind.rsi > rsiLower(symbol)

\* C16: a buy-limit order is requested for a pair only in a tick whose
\* indicators satisfy the buy decision (buying enabled, fast ATR below slow
\* ATR, close below the fast average by more than the gap, close above the
\* slow average, RSI falling and below rsiUpper); a sell-limit order only when
\* they satisfy the mirrored sell decision.
SignalConditions ==
    \A i \in 1..Len(tick.placed) :
        LET order == tick.placed[i]
            ind   == At(tick.mkt, PlacedPair(order)).ind
        IN  /\ order.request.type \in { "BUY_LIMIT", "SELL_LIMIT" }
            /\ order.request.type = "BUY_LIMIT"
                 => (ind.available /\ BuyHolds(order.request.symbol, ind))
            /\ order.request.type = "SELL_LIMIT"
                 => (ind.available /\ SellHolds(order.request.symbol, ind))

\* a sell-limit order went out on a sell setup
SignalConditionsWitness ==
    /\ tick.mkt = GoldSell
    /\ Len(tick.placed) = 1
    /\ tick.placed[1].accepted
    /\ tick.placed[1].request.type = "SELL_LIMIT"

\* C17: in one tick at most one order is requested per pair, and a pair whose
\* indicators satisfy the buy decision gets a buy-limit request, whatever the
\* sell decision says.
BuyFirst ==
    /\ \A i \in 1..Len(tick.placed) : \A j \in 1..Len(tick.placed) :
         i # j => PlacedPair(tick.placed[i]) # PlacedPair(tick.placed[j])
    /\ \A i \in 1..Len(tick.placed) :
         BuyHolds(tick.placed[i].request.symbol,
                  At(tick.mkt, PlacedPair(tick.placed[i])).ind)
             => tick.placed[i].request.type = "BUY_LIMIT"

\* two pairs with a buy setup in one tick: one buy-limit request each
BuyFirstWitness ==
    /\ tick.mkt = BothBuy
    /\ Len(tick.placed) = 2
    /\ tick.placed[1].request.type = "BUY_LIMIT"
    /\ tick.placed[2].request.type = "BUY_LIMIT"
    /\ ~tick.placed[1].accepted

\* C18: active_orders never holds two entries with one ticket, and an entry
\* that was not in the ledger before the tick carries the ticket of an order
\* the gateway accepted in this tick, for the same pair.
LedgerTicketsUnique ==
    /\ \A i \in 1..Len(active_orders) : \A j \in 1..Len(active_orders) :
         i # j => active_orders[i].ticket # active_orders[j].ticket
    /\ \A i \in 1..Len(active_orders) :
         LET order == active_orders[i]
         IN  \/ \E j \in 1..Len(tick.tracked) : tick.tracked[j] = order
             \/ \E j \in 1..Len(tick.placed) :
                  /\ tick.placed[j].accepted
                  /\ tick.placed[j].ticket = order.ticket
                  /\ PlacedPair(tick.placed[j]) = << order.symbol, order.timeframe >>

\* the ledger holds an order of an earlier tick and one accepted in this tick
LedgerTicketsWitness ==
    /\ Len(active_orders) = 2
    /\ \E j \in 1..Len(tick.tracked) : tick.tracked[j] = active_orders[1]
    /\ \E j \in 1..Len(tick.placed) :
         tick.placed[j].accepted /\ tick.placed[j].ticket = active_orders[2].ticket

\* C19: in a tick that reads an equity at or below the session baseline less
\* DAILY_LOSS_PERCENT, with a positive baseline, no order reaches the
\* gateway's book.
DailyLossHaltsOnLoss ==
    ( /\ tick.read
      /\ equity_at_start > 0
      /\ tick.equity * 100 <= equity_at_start * (100 - DAILY_LOSS_PERCENT) )
    => \A i \in 1..Len(tick.placed) : ~tick.placed[i].accepted

\* C20: the orders the gateway accepted in a tick and the positions and
\* pending orders of the tick's snapshot are together at most
\* MAX_GLOBAL_TRADES.
GlobalTradeCap ==
    LET accepted == { i \in 1..Len(tick.placed) : tick.placed[i].accepted }
    IN  accepted # {} => SnapshotTotal + Cardinality(accepted) <= MAX_GLOBAL_TRADES

\* C23: no tick ends with an exception leaving on_timer, whatever the gateway
\* returned for the positions and orders lists, and the control loop stays
\* alive.
PerInstrumentIsolation == alive /\ tick.outcome # "raised"

\* the fields of the engine a tick may write
engine_fields ==
    << equity_high, equity_at_start, daily_profit_loss, last_trading_day,
       active_orders, last_trade_bar >>

\* C24: a tick whose connection check and reconnect both failed leaves
\* equity_high, equity_at_start, daily_profit_loss, last_trading_day,
\* active_orders and every last_trade_bar as they were and sends no place,
\* modify or cancel request (the gateway's book is untouched); no tick makes
\* more than one reconnect attempt.
NoConnectionSkipsTick ==
    [][ (tick' # tick)
          => /\ tick'.reconnects <= 1
             /\ (tick'.conn = "failed")
                  => /\ tick'.outcome = "no_connection"
                     /\ UNCHANGED engine_fields
                     /\ UNCHANGED << gw_orders, gw_positions, next_ticket >>
                     /\ tick'.placed = << >>
                     /\ tick'.modified = << >>
                     /\ tick'.cancels = << >> ]_vars

\* a tick failed to reconnect while the engine tracked an order of its own
NoConnectionWitness ==
    /\ tick.conn = "failed"
    /\ tick.reconnects = 1
    /\ tick.outcome = "no_connection"
    /\ active_orders # << >>
    /\ gw_orders # {}

\* the positions and orders of a snapshot that carry one magic on one symbol
ExposureIn(data, symbol, magic) ==
    Cardinality({ j \in 1..Len(data.positions.list) :
                    /\ data.positions.list[j].symbol = symbol
                    /\ data.positions.list[j].magic = magic })
    + Cardinality({ j \in 1..Len(data.orders.list) :
                      /\ data.orders.list[j].symbol = symbol
                      /\ data.orders.list[j].magic = magic })

\* the placement requests of a tick log for one pair
RequestsFor(log, pair) ==
    { i \in 1..Len(log.placed) : PlacedPair(log.placed[i]) = pair }

\* C25: a tick in which the gateway rejected a pair's order adds no entry for
\* that pair to active_orders, leaves the pair's last_trade_bar as it was and
\* makes exactly one request for the pair; and when the following tick is
\* processed with the same market for the pair, no exposure and the total
\* below the cap, it requests the order again.
RejectionLeavesNoTrace ==
    [][ (tick' # tick) =>
          /\ \A i \in 1..Len(tick'.placed) :
               LET pair == PlacedPair(tick'.placed[i])
               IN  ~tick'.placed[i].accepted
                     => /\ last_trade_bar'[pair] = last_trade_bar[pair]
                        /\ \A k \in 1..Len(active_orders') :
                             << active_orders'[k].symbol,
                                active_orders'[k].timeframe >> = pair
                               => \E j \in 1..Len(active_orders) :
                                    active_orders[j] = active_orders'[k]
                        /\ Cardinality(RequestsFor(tick', pair)) = 1
          /\ \A i \in 1..Len(tick.placed) :
               LET pair == PlacedPair(tick.placed[i])
               IN  ( /\ ~tick.placed[i].accepted
                     /\ tick'.outcome = "processed"
                     /\ At(tick'.mkt, pair) = At(tick.mkt, pair)
                     /\ Len(cached_data'.positions.list)
                          + Len(cached_data'.orders.list) < MAX_GLOBAL_TRADES
                     /\ ExposureIn(cached_data', pair[1],
                                   MagicOfOrder(pair[1], pair[2])) = 0 )
                   => RequestsFor(tick', pair) # {} ]_vars

\* gold's order was rejected in a tick that came a bar after the first, while
\* bitcoin's order of that tick was accepted
RejectionWitness ==
    /\ tick.now = 2
    /\ Len(tick.placed) = 2
    /\ ~tick.placed[1].accepted
    /\ tick.placed[2].accepted
    /\ \A k \in 1..Len(active_orders) : active_orders[k].symbol # "XAUUSD"
    /\ last_trade_bar[GoldM5] = -10

\* C26: equity_at_start, daily_profit_loss and last_trading_day change only in
\* a tick that obtained account info on a Sunday-Friday date other than
\* last_trading_day, which sets equity_at_start to the tick's equity,
\* daily_profit_loss to 0 and last_trading_day to that date; such a tick
\* always does so, and a tick on the date of last_trading_day leaves
\* equity_at_start as it was.  last_trading_day is never later than the
\* clock's date, so a date is reset on once.
DailyRolloverOnce ==
    /\ [](last_trading_day = NoDay \/ last_trading_day <= Instants[clock].date)
    /\ [][ LET today   == Instants[tick'.now].date
               trading == WeekdayOf(today) # 5
               changed == \/ equity_at_start' # equity_at_start
                          \/ daily_profit_loss' # daily_profit_loss
                          \/ last_trading_day' # last_trading_day
               rebased == /\ equity_at_start' = tick'.equity
                          /\ daily_profit_loss' = 0
                          /\ last_trading_day' = today
           IN  /\ changed => ( /\ tick'.read /\ trading
                               /\ last_trading_day # today
                               /\ rebased )
               /\ (tick' # tick /\ tick'.read /\ trading /\ last_trading_day # today)
                    => rebased
               /\ (tick' # tick /\ last_trading_day = today)
                    => UNCHANGED << equity_at_start, last_trading_day >> ]_vars

\* a later tick of Friday reads a lower equity and keeps Friday's baseline
DailyRolloverWitness ==
    /\ tick.now = 3
    /\ tick.read
    /\ tick.equity = 9400
    /\ equity_at_start = 10000
    /\ last_trading_day = Instants[3].date

\* C27: a tick that stops at the closed session gate has sent no cancel
\* request and has removed no order from the ledger.
SessionGateBeforeExpiry ==
    tick.outcome = "no_session"
        => (tick.cancels = << >> /\ active_orders = tick.tracked)

\* the tickets of the open orders in the tick's snapshot
SnapshotTickets ==
    { cached_data.orders.list[j].ticket : j \in 1..Len(cached_data.orders.list) }

\* C28: after a tick in which cleanup_orders ran, every ledger entry carried
\* over from before the tick has its ticket among the snapshot's open orders,
\* and an entry whose ticket was absent is gone from the ledger with no
\* cancel request sent for it.
ReconcileDropsAbsent ==
    tick.outcome \in { "no_session", "processed" }
        => \A i \in 1..Len(tick.tracked) :
             LET order  == tick.tracked[i]
                 kept   == \E k \in 1..Len(active_orders) : active_orders[k] = order
                 asked  == \E k \in 1..Len(tick.cancels) :
                              tick.cancels[k].ticket = order.ticket
             IN  /\ kept => order.ticket \in SnapshotTickets
                 /\ order.ticket \notin SnapshotTickets => (~kept /\ ~asked)

\* of two tracked orders one had left the gateway's book: it was dropped in
\* silence and the other kept
ReconcileWitness ==
    /\ tick.outcome = "processed"
    /\ Len(tick.tracked) = 2
    /\ Len(active_orders) = 1
    /\ active_orders[1].ticket \in SnapshotTickets
    /\ tick.cancels = << >>
    /\ tick.placed = << >>

\* C29: the take-profit the trailer sends lies, for a long position, strictly
\* above the new stop and above the entry price, for a short position
\* strictly below both, at RISK_REWARD_RATIO times the new stop's distance
\* from the entry.
TrailingTakeProfitSide ==
    \A i \in 1..Len(tick.modified) :
        LET m == tick.modified[i]
        IN  /\ Abs(m.tp - m.price_open)
                 = RISK_REWARD_RATIO * Abs(m.sl - m.price_open)
            /\ IF m.type = "BUY"
               THEN m.tp > m.sl /\ m.tp > m.price_open
               ELSE m.tp < m.sl /\ m.tp < m.price_open

\* the snapshot positions the trailer of a pair looks after
TrailedBy(pair) ==
    { j \in 1..Len(cached_data.positions.list) :
        /\ cached_data.positions.list[j].symbol = pair[1]
        /\ cached_data.positions.list[j].magic = MagicOfTrailer(pair[1], pair[2]) }

\* C30: the trailer modifies only positions whose profit is at least
\* RISK_PER_TRADE and whose symbol info is available with a positive point
\* value; for the others it sends nothing, and no tick ends in an error.
TrailingNeedsProfitUnit ==
    /\ alive
    /\ \A i \in 1..Len(tick.modified) :
         \E pair \in ActivePairs : \E j \in TrailedBy(pair) :
           LET position == cached_data.positions.list[j]
               info     == At(tick.mkt, pair).info
           IN  /\ position.ticket = tick.modified[i].ticket
               /\ position.profit >= RISK_PER_TRADE
               /\ info.available
               /\ position.volume > 0
               /\ pair[1] \notin { "BTCUSD", "ETHUSD" }
                    => /\ info.point > 0
                       /\ info.trade_tick_size > 0
                       /\ info.trade_tick_value > 0

\* gold has risen past a long position that is 40 in profit, short of one
\* unit, in a bar where the trailer is reached: nothing is sent
TrailingStartWitness ==
    /\ tick.outcome = "processed"
    /\ tick.mkt = QuietUp
    /\ tick.now = 2
    /\ \E j \in TrailedBy(GoldM5) :
         /\ cached_data.positions.list[j].type = "BUY"
         /\ cached_data.positions.list[j].profit = 40
    /\ tick.modified = << >>

\* C21: the gateway connection is closed only while no run of on_timer is
\* under way, and no run of on_timer starts after the signal.
ShutdownAtTickGranularity ==
    /\ loop.gateway = "closed" => loop.pc \notin { "on_timer", "body" }
    /\ ~loop.started_after_signal

\* C22: on_timer is entered only from the interval test of the control loop,
\* never from within a run of on_timer, and a tick starts at least
\* TIMER_INTERVAL after the start of the tick before it.
SingleFlight ==
    [][ (loop'.pc = "on_timer" /\ loop.pc # "on_timer")
          => /\ loop.pc = "if"
             /\ loop'.last_check_time = loop.time
             /\ loop'.last_check_time - loop.last_check_time >= TIMER_INTERVAL ]_vars

\* a tick that took six seconds is followed by the next one a sleep later
SingleFlightWitness ==
    /\ loop.pc = "on_timer"
    /\ loop.last_check_time = StartTime + 60 + SLEEP
    /\ tick.outcome = "processed"

\* C31: a process whose engine was not initialized runs no tick, sends the
\* gateway no request (not even a reconnect), and once ended has an exit code
\* other than 0.
NoTickAfterFailedInit ==
    ~loop.initialized
        => /\ tick.outcome = "none"
           /\ tick.reconnects = 0
           /\ loop.pc # "on_timer"
           /\ loop.pc = "done" => loop.exit_code # "0"

====
